---- MODULE Spec2Model ----
(***************************************************************************)
(* A model of runtime/src/openxla/runtime/nvgpu/cudnn_api.cpp: the cuDNN   *)
(* tensor / operation DAG, CreateOperationGraph, CreateExecutable and      *)
(* CuDNNExecutable::Execute.                                               *)
(*                                                                         *)
(* Tensors live in `tensors` in creation order; a tensor is named by its   *)
(* position there (its address).  An operation is owned by exactly one     *)
(* CuDNNOpResultTensor, so an operation is named by its result tensor.     *)
(***************************************************************************)
EXTENDS Integers, Sequences, FiniteSets, TLC

VARIABLES tensors, graph, executable, last, refs, handles

vars == <<tensors, graph, executable, last, refs, handles>>

\* The reference counts of the objects and the handles the caller holds.
lifetime == <<refs, handles>>

(***************************************************************************)
(* Bounds of the model.                                                    *)
(***************************************************************************)
MaxTensors == 3
MaxUid == 2
MaxRets == 2
MaxConfigs == 2
MaxBuffers == 3
MaxDim == 2

NoGraph == [none |-> TRUE]
NoExecutable == [none |-> TRUE]

\* Reference counts and handles where a specification does not follow them.
Untracked == [none |-> TRUE]

(***************************************************************************)
(* Sequence helpers.                                                       *)
(***************************************************************************)
\* The list left as the traversal collected it.
Reverse_Unreversed(s) == s

Reverse(s) == [i \in 1..Len(s) |-> s[Len(s) + 1 - i]]

Range(s) == {s[i] : i \in 1..Len(s)}

SeqsUpTo(S, n) == UNION {[1..k -> S] : k \in 0..n}

(***************************************************************************)
(* Helper functions for setting up cuDNN descriptors.                      *)
(***************************************************************************)
RECURSIVE RowMajorFrom(_, _, _)
RowMajorFrom(dims, strides, d) ==
  IF d < 1 THEN strides
  ELSE RowMajorFrom(dims, [strides EXCEPT ![d] = dims[d] * strides[d + 1]], d - 1)

GetRowMajorStrides(dims) ==
  RowMajorFrom(dims, [i \in 1..Len(dims) |-> 1], Len(dims) - 1)

\* GetChannelsLastStrides with the outermost stride taken from the wrong dim.
GetChannelsLastStrides_WrongOuter(dims) ==
  <<dims[2] * dims[4] * dims[4], 1, dims[2] * dims[4], dims[2]>> \o
  [i \in 1..(Len(dims) - 4) |-> 1]

RECURSIVE ChannelsLastFrom(_, _, _)
ChannelsLastFrom(dims, strides, d) ==
  IF d < 3 THEN strides
  ELSE ChannelsLastFrom(dims,
                        [strides EXCEPT ![d] = strides[d + 1] * dims[d + 1]],
                        d - 1)

GetChannelsLastStrides(dims) ==
  LET n == Len(dims)
      s0 == [i \in 1..n |-> 1]
      s1 == [s0 EXCEPT ![n] = s0[2] * dims[2]]
      s2 == ChannelsLastFrom(dims, s1, n - 1)
  IN [s2 EXCEPT ![1] = s2[3] * dims[3]]

(***************************************************************************)
(* Tensor nodes.  A CuDNNArgTensor holds a tensor descriptor; a            *)
(* CuDNNOpResultTensor also holds its operation and retains its inputs.    *)
(***************************************************************************)
CuDNNArgTensor(dims, strides, uid) ==
  [kind |-> "kArg", id |-> uid, dims |-> dims, strides |-> strides,
   op |-> "none", inputs |-> <<>>]

CuDNNOpResultTensor(inputs, operation, dims, strides, uid) ==
  [kind |-> "kOpResult", id |-> uid, dims |-> dims, strides |-> strides,
   op |-> operation, inputs |-> inputs]

\* The descriptors a Create* call builds, in the order it builds them; each
\* build may be rejected by the backend, which ends the call with that status.
BuiltBefore(stages, fail) ==
  IF fail = 0 THEN Range(stages) ELSE {stages[i] : i \in 1..(fail - 1)}

CreateStatus(fail) == IF fail = 0 THEN "OK" ELSE "INTERNAL"

(***************************************************************************)
(* CreateTensor                                                            *)
(***************************************************************************)
CreateTensor(dims, strides, uid, fail) ==
  /\ Len(tensors) < MaxTensors
  /\ tensors' = IF fail = 0
                THEN Append(tensors, CuDNNArgTensor(dims, strides, uid))
                ELSE tensors
  /\ last' = [op |-> "CreateTensor", status |-> CreateStatus(fail),
              built |-> BuiltBefore(<<"tensor">>, fail)]
  /\ UNCHANGED <<graph, executable>>

(***************************************************************************)
(* CreatePointwiseRelu, CreatePointwiseUnary, CreatePointwiseBinary: the   *)
(* output descriptor is cloned from the first input and given the new id.  *)
(***************************************************************************)
PointwiseStages == <<"tensor", "pointwise", "operation">>

CreatePointwiseRelu(input, uid, fail) ==
  /\ Len(tensors) < MaxTensors
  /\ tensors' = IF fail = 0
                THEN Append(tensors,
                            CuDNNOpResultTensor(<<input>>, "relu",
                                                tensors[input].dims,
                                                tensors[input].strides, uid))
                ELSE tensors
  /\ last' = [op |-> "CreatePointwiseRelu", status |-> CreateStatus(fail),
              built |-> BuiltBefore(PointwiseStages, fail)]
  /\ UNCHANGED <<graph, executable>>

CreatePointwiseUnary(x, uid, fail) ==
  /\ Len(tensors) < MaxTensors
  /\ tensors' = IF fail = 0
                THEN Append(tensors,
                            CuDNNOpResultTensor(<<x>>, "pointwise_unary",
                                                tensors[x].dims,
                                                tensors[x].strides, uid))
                ELSE tensors
  /\ last' = [op |-> "CreatePointwiseUnary", status |-> CreateStatus(fail),
              built |-> BuiltBefore(PointwiseStages, fail)]
  /\ UNCHANGED <<graph, executable>>

CreatePointwiseBinary(x, b, uid, fail) ==
  /\ Len(tensors) < MaxTensors
  /\ tensors' = IF fail = 0
                THEN Append(tensors,
                            CuDNNOpResultTensor(<<x, b>>, "pointwise_binary",
                                                tensors[x].dims,
                                                tensors[x].strides, uid))
                ELSE tensors
  /\ last' = [op |-> "CreatePointwiseBinary", status |-> CreateStatus(fail),
              built |-> BuiltBefore(PointwiseStages, fail)]
  /\ UNCHANGED <<graph, executable>>

(***************************************************************************)
(* CreateConvolution                                                       *)
(***************************************************************************)
kSpatialDims == 2

\* C++ integer division truncates toward zero.
TruncDiv(a, b) ==
  IF (a >= 0) = (b > 0) THEN (IF a >= 0 THEN a ELSE -a) \div (IF b > 0 THEN b ELSE -b)
  ELSE -((IF a >= 0 THEN a ELSE -a) \div (IF b > 0 THEN b ELSE -b))

GetFwdConvDilatedFilterDim(filter_dim, dilation) ==
  ((filter_dim - 1) * dilation) + 1

GetFwdConvPaddedImageDim(tensor_dim, padding) == tensor_dim + (2 * padding)

GetFwdConvOutputDim(tensor_dim, padding, filter_dim, stride, dilation) ==
  LET padded == GetFwdConvPaddedImageDim(tensor_dim, padding)
      dilated == GetFwdConvDilatedFilterDim(filter_dim, dilation)
  IN TruncDiv(padded - dilated, stride) + 1

ConvPaddings == [d \in 1..kSpatialDims |-> 0]
ConvStrides == [d \in 1..kSpatialDims |-> 1]
ConvDilations == [d \in 1..kSpatialDims |-> 1]

\* Valid once both rank checks have passed.
ConvOutputDims(input_dims, filter_dims) ==
  <<input_dims[1], input_dims[2]>> \o
  [d \in 1..kSpatialDims |->
     GetFwdConvOutputDim(input_dims[d + 2], ConvPaddings[d],
                         filter_dims[d + 2], ConvStrides[d], ConvDilations[d])]

ConvOutputStrides(input_strides, output_dims) ==
  LET is_nhwc == input_strides[2] = 1
  IN IF is_nhwc THEN GetChannelsLastStrides(output_dims)
     ELSE GetRowMajorStrides(output_dims)

ConvStages == <<"tensor", "convolution", "operation">>

\* ConvRankStatus with the input rank compared by < instead of #.
ConvRankStatus_AtLeast4(input_dims, filter_dims) ==
  IF Len(input_dims) < 4 THEN "INVALID_ARGUMENT"
  ELSE IF Len(input_dims) # Len(filter_dims) THEN "INVALID_ARGUMENT"
  ELSE "OK"

ConvRankStatus(input_dims, filter_dims) ==
  IF Len(input_dims) # 4 THEN "INVALID_ARGUMENT"
  ELSE IF Len(input_dims) # Len(filter_dims) THEN "INVALID_ARGUMENT"
  ELSE "OK"

CreateConvolution(input, filter, uid, fail) ==
  LET input_dims == tensors[input].dims
      filter_dims == tensors[filter].dims
      rank == ConvRankStatus(input_dims, filter_dims)
  IN
  /\ Len(tensors) < MaxTensors
  /\ IF rank # "OK"
     THEN /\ tensors' = tensors
          /\ last' = [op |-> "CreateConvolution", status |-> rank,
                      built |-> {}, input |-> input, filter |-> filter]
     ELSE LET output_dims == ConvOutputDims(input_dims, filter_dims)
              output_strides ==
                ConvOutputStrides(tensors[input].strides, output_dims)
          IN /\ tensors' =
                  IF fail = 0
                  THEN Append(tensors,
                              CuDNNOpResultTensor(<<input, filter>>,
                                                  "convolution", output_dims,
                                                  output_strides, uid))
                  ELSE tensors
             /\ last' = [op |-> "CreateConvolution",
                         status |-> CreateStatus(fail),
                         built |-> BuiltBefore(ConvStages, fail),
                         input |-> input, filter |-> filter]
  /\ UNCHANGED <<graph, executable>>

(***************************************************************************)
(* CreateOperationGraph                                                    *)
(***************************************************************************)
IsArg(tensor) == tensors[tensor].kind = "kArg"

IsOpResult(tensor) == tensors[tensor].kind = "kOpResult"

\* The worklist loop: pop the back of the worklist; an argument goes into the
\* set `args`; an operation result appends its operation to `ops` and its
\* inputs to the worklist.
RECURSIVE Traverse(_, _, _)
Traverse(worklist, args, ops) ==
  IF worklist = <<>> THEN [args |-> args, ops |-> ops]
  ELSE LET tensor == worklist[Len(worklist)]
           popped == SubSeq(worklist, 1, Len(worklist) - 1)
       IN Traverse(IF IsOpResult(tensor)
                   THEN popped \o tensors[tensor].inputs ELSE popped,
                   IF IsArg(tensor) THEN args \cup {tensor} ELSE args,
                   IF IsOpResult(tensor) THEN Append(ops, tensor) ELSE ops)

\* An iteration that reads the back of the worklist and leaves it there.
TraverseStep_NoPop(loop) ==
  LET tensor == loop.worklist[Len(loop.worklist)]
  IN [worklist |-> IF IsOpResult(tensor)
                   THEN loop.worklist \o tensors[tensor].inputs
                   ELSE loop.worklist,
      args |-> IF IsArg(tensor) THEN loop.args \cup {tensor} ELSE loop.args,
      ops |-> IF IsOpResult(tensor) THEN Append(loop.ops, tensor) ELSE loop.ops]

\* One iteration of the worklist loop, on the loop's three locals.
TraverseStep(loop) ==
  LET tensor == loop.worklist[Len(loop.worklist)]
      popped == SubSeq(loop.worklist, 1, Len(loop.worklist) - 1)
  IN [worklist |-> IF IsOpResult(tensor)
                   THEN popped \o tensors[tensor].inputs ELSE popped,
      args |-> IF IsArg(tensor) THEN loop.args \cup {tensor} ELSE loop.args,
      ops |-> IF IsOpResult(tensor) THEN Append(loop.ops, tensor) ELSE loop.ops]

\* The loop run for at most `steps` iterations.
RECURSIVE TraverseWithin(_, _)
TraverseWithin(loop, steps) ==
  IF loop.worklist = <<>> \/ steps = 0 THEN loop
  ELSE TraverseWithin(TraverseStep(loop), steps - 1)

\* The comparator handed to std::sort.
IdLess(a, b) == tensors[a].id < tensors[b].id

\* std::sort over the elements of the unordered set: any arrangement of them in
\* which no element is followed by one that compares less.
SortedById(args) ==
  {s \in [1..Cardinality(args) -> args] :
     /\ \A i, j \in 1..Cardinality(args) : i # j => s[i] # s[j]
     /\ \A i, j \in 1..Cardinality(args) : i < j => ~IdLess(s[j], s[i])}

\* The constructor recording the ids of the rets before those of the args.
CuDNNOperationGraph_RetsFirst(ops, args, rets) ==
  [ops |-> ops, args |-> args, rets |-> rets,
   uids |-> [i \in 1..Len(rets) |-> tensors[rets[i]].id] \o
            [i \in 1..Len(args) |-> tensors[args[i]].id]]

\* The constructor: retains args and rets and records the ids of both, args
\* first.
CuDNNOperationGraph(ops, args, rets) ==
  [ops |-> ops, args |-> args, rets |-> rets,
   uids |-> [i \in 1..Len(args) |-> tensors[args[i]].id] \o
            [i \in 1..Len(rets) |-> tensors[rets[i]].id]]

CreateOperationGraph(rets, fail) ==
  LET found == Traverse(rets, {}, <<>>)
      ops == Reverse(found.ops)
  IN /\ \E unique_args \in SortedById(found.args) :
          graph' = IF fail = 0
                   THEN CuDNNOperationGraph(ops, unique_args, rets)
                   ELSE graph
     /\ last' = [op |-> "CreateOperationGraph", status |-> CreateStatus(fail),
                 rets |-> rets]
     /\ UNCHANGED <<tensors, executable>>

(***************************************************************************)
(* CreateExecutable.  `configs` is what the heuristic returned, in ranked  *)
(* order: for each engine config, whether its execution plan builds and    *)
(* the workspace that plan asks for.                                       *)
(***************************************************************************)
RECURSIVE BuildPlans_StopAtFailure(_, _, _)
\* The loop leaving at the first config whose plan does not build.
BuildPlans_StopAtFailure(configs, c, attempted) ==
  IF c > Len(configs) THEN [plans |-> <<>>, attempted |-> attempted]
  ELSE IF ~configs[c].builds
       THEN [plans |-> <<>>, attempted |-> Append(attempted, c)]
       ELSE [plans |-> <<[config |-> c, workspace |-> configs[c].workspace]>>,
             attempted |-> Append(attempted, c)]

RECURSIVE BuildPlans_NoBreak(_, _, _)
\* The loop without its break: every config is tried, every plan kept.
BuildPlans_NoBreak(configs, c, attempted) ==
  IF c > Len(configs) THEN [plans |-> <<>>, attempted |-> attempted]
  ELSE LET rest == BuildPlans_NoBreak(configs, c + 1, Append(attempted, c))
       IN IF ~configs[c].builds THEN rest
          ELSE [plans |->
                  <<[config |-> c, workspace |-> configs[c].workspace]>> \o
                  rest.plans,
                attempted |-> rest.attempted]

RECURSIVE BuildPlans(_, _, _)
\* The loop over configs from position c on: skips a config whose plan does
\* not build, stops at the first one that does.
BuildPlans(configs, c, attempted) ==
  IF c > Len(configs) THEN [plans |-> <<>>, attempted |-> attempted]
  ELSE IF ~configs[c].builds
       THEN BuildPlans(configs, c + 1, Append(attempted, c))
       ELSE [plans |-> <<[config |-> c, workspace |-> configs[c].workspace]>>,
             attempted |-> Append(attempted, c)]

CuDNNExecutable(g, plans) == [graph |-> g, plans |-> plans]

CreateExecutable(configs) ==
  LET built == BuildPlans(configs, 1, <<>>)
  IN /\ graph # NoGraph
     /\ IF configs = <<>>
        THEN /\ executable' = executable
             /\ last' = [op |-> "CreateExecutable", status |-> "INTERNAL",
                         configs |-> configs, attempted |-> <<>>,
                         created |-> FALSE]
        ELSE IF built.plans = <<>>
        THEN /\ executable' = executable
             /\ last' = [op |-> "CreateExecutable", status |-> "INTERNAL",
                         configs |-> configs, attempted |-> built.attempted,
                         created |-> FALSE]
        ELSE /\ executable' = CuDNNExecutable(graph, built.plans)
             /\ last' = [op |-> "CreateExecutable", status |-> "OK",
                         configs |-> configs, attempted |-> built.attempted,
                         created |-> TRUE]
     /\ UNCHANGED <<tensors, graph>>

(***************************************************************************)
(* CuDNNExecutable::Execute                                                *)
(***************************************************************************)
\* Device pointer of a buffer: the allocation's pointer plus the byte offset.
DevicePointer(buffer) == buffer.ptr + buffer.offset

GetDevicePointers(buffers) ==
  [i \in 1..Len(buffers) |-> DevicePointer(buffers[i])]

AllDeviceBuffers(buffers) ==
  \A i \in 1..Len(buffers) : buffers[i].type = "DEVICE"

\* The buffer count check left out.
BufferCountMatches_Unchecked(buffers, g) == TRUE

BufferCountMatches(buffers, g) ==
  Len(buffers) = Len(g.args) + Len(g.rets)

\* The outcome of Execute.  `asserts` says whether the build keeps
\* IREE_ASSERT; `pack_ok` and `exec_ok` are the backend's answers.
\* `reached` lists the program points passed, in order.
ExecuteOutcome(e, buffers, asserts, pack_ok, exec_ok) ==
  LET g == e.graph
      ptrs == GetDevicePointers(buffers)
      uids == g.uids
      none == [ptrs |-> <<>>, uids |-> <<>>]
      pack == [ptrs |-> ptrs, uids |-> uids]
  IN IF ~BufferCountMatches(buffers, g)
     THEN [status |-> "INVALID_ARGUMENT", reached |-> <<>>, pack |-> none]
     ELSE IF asserts /\ ~AllDeviceBuffers(buffers)
     THEN [status |-> "ABORT", reached |-> <<"assert_buffer_type">>,
           pack |-> none]
     ELSE IF asserts /\ Len(ptrs) # Len(uids)
     THEN [status |-> "ABORT",
           reached |-> <<"assert_buffer_type", "assert_uids">>, pack |-> none]
     ELSE IF asserts /\ e.plans[1].workspace # 0
     THEN [status |-> "ABORT",
           reached |-> <<"assert_buffer_type", "assert_uids",
                         "assert_workspace">>,
           pack |-> none]
     ELSE IF ~pack_ok
     THEN [status |-> "INTERNAL",
           reached |-> <<"assert_buffer_type", "assert_uids",
                         "assert_workspace", "pack">>,
           pack |-> none]
     ELSE [status |-> IF exec_ok THEN "OK" ELSE "INTERNAL",
           reached |-> <<"assert_buffer_type", "assert_uids",
                         "assert_workspace", "pack", "cudnnBackendExecute">>,
           pack |-> pack]

Execute(buffers, asserts, pack_ok, exec_ok) ==
  /\ executable # NoExecutable
  /\ last' = [op |-> "Execute", buffers |-> buffers] @@
             ExecuteOutcome(executable, buffers, asserts, pack_ok, exec_ok)
  /\ UNCHANGED <<tensors, graph, executable>>

(***************************************************************************)
(* Inputs of the calls.                                                    *)
(***************************************************************************)
Uids == 1..MaxUid

\* Ranks around the one CreateConvolution accepts.
Ranks == {3, 4, 5}

\* Shapes of the tensors convolutions are built from: every rank-4 shape with
\* dimensions up to MaxDim, the shapes of the example (input [1,3,8,8], filter
\* [4,3,3,3]), and shapes of the other ranks.
ConvShapes ==
  [1..4 -> 1..MaxDim] \cup {<<1, 3, 8, 8>>, <<4, 3, 3, 3>>} \cup
  {[i \in 1..r |-> d] : r \in Ranks \ {4}, d \in 1..MaxDim}

\* Layouts a caller gives a tensor of these dims, from the exported helpers.
Layouts(dims) ==
  {GetRowMajorStrides(dims)} \cup
  (IF Len(dims) \in {4, 5} THEN {GetChannelsLastStrides(dims)} ELSE {})

\* The one shape of the tensors of the graph specification.
GraphShape == <<1, 1, 1, 1>>

ConfigOutcomes ==
  {[builds |-> FALSE, workspace |-> 0], [builds |-> TRUE, workspace |-> 0],
   [builds |-> TRUE, workspace |-> 1]}

\* Buffer lists of up to MaxBuffers buffers: the buffer at position i is its
\* own allocation, at an offset, in device memory; at most one buffer of a
\* list is in host memory instead.
BufferAt(i, type) ==
  [ptr |-> 16 * i, offset |-> 8 * (i % 2), type |-> type]

BufferLists ==
  UNION {{[i \in 1..n |-> BufferAt(i, IF i = host THEN "HOST" ELSE "DEVICE")] :
            host \in 0..n} : n \in 0..MaxBuffers}

(***************************************************************************)
(* The specification of graph construction: any sequence of Create* calls  *)
(* and CreateOperationGraph calls; `graph` holds the graph built last.     *)
(***************************************************************************)
Init ==
  /\ tensors = <<>>
  /\ graph = NoGraph
  /\ executable = NoExecutable
  /\ last = [op |-> "none", status |-> "OK"]
  /\ refs = Untracked
  /\ handles = Untracked

Next ==
  \/ \E uid \in Uids, fail \in 0..1 :
       CreateTensor(GraphShape, GetRowMajorStrides(GraphShape), uid, fail)
       /\ UNCHANGED lifetime
  \/ \E input \in 1..Len(tensors), uid \in Uids, fail \in 0..3 :
       CreatePointwiseRelu(input, uid, fail) /\ UNCHANGED lifetime
  \/ \E x \in 1..Len(tensors), uid \in Uids, fail \in 0..3 :
       CreatePointwiseUnary(x, uid, fail) /\ UNCHANGED lifetime
  \/ \E x, b \in 1..Len(tensors), uid \in Uids, fail \in 0..3 :
       CreatePointwiseBinary(x, b, uid, fail) /\ UNCHANGED lifetime
  \/ \E input, filter \in 1..Len(tensors), uid \in Uids, fail \in 0..3 :
       CreateConvolution(input, filter, uid, fail) /\ UNCHANGED lifetime
  \/ \E rets \in SeqsUpTo(1..Len(tensors), MaxRets), fail \in 0..1 :
       CreateOperationGraph(rets, fail) /\ UNCHANGED lifetime

Spec == Init /\ [][Next]_vars

(***************************************************************************)
(* The state compilation and execution start from: two argument tensors    *)
(* and a binary operation over them, with any ids, as CreateTensor (twice) *)
(* and CreatePointwiseBinary leave them.                                   *)
(***************************************************************************)
InitDag ==
  /\ \E u1, u2, u3 \in Uids :
       LET strides == GetRowMajorStrides(GraphShape)
       IN tensors = <<CuDNNArgTensor(GraphShape, strides, u1),
                      CuDNNArgTensor(GraphShape, strides, u2),
                      CuDNNOpResultTensor(<<1, 2>>, "pointwise_binary",
                                          GraphShape, strides, u3)>>
  /\ graph = NoGraph
  /\ executable = NoExecutable
  /\ last = [op |-> "none", status |-> "OK"]
  /\ refs = Untracked
  /\ handles = Untracked

(***************************************************************************)
(* The specification of compilation: one graph over these tensors, and any *)
(* sequence of CreateExecutable calls, each with the configs the heuristic *)
(* returns; `executable` holds the executable created last.                *)
(***************************************************************************)
NextCompile ==
  \/ /\ graph = NoGraph
     /\ \E rets \in SeqsUpTo(1..Len(tensors), MaxRets) :
          CreateOperationGraph(rets, 0) /\ UNCHANGED lifetime
  \/ \E configs \in SeqsUpTo(ConfigOutcomes, MaxConfigs) :
       CreateExecutable(configs) /\ UNCHANGED lifetime

SpecCompile == InitDag /\ [][NextCompile]_vars

(***************************************************************************)
(* The specification of execution: one graph over these tensors, and any   *)
(* sequence of CreateExecutable calls, the heuristic returning one config, *)
(* and Execute calls.                                                      *)
(***************************************************************************)
NextExec ==
  \/ /\ graph = NoGraph
     /\ \E rets \in SeqsUpTo(1..Len(tensors), MaxRets) :
          CreateOperationGraph(rets, 0) /\ UNCHANGED lifetime
  \/ \E config \in ConfigOutcomes :
       CreateExecutable(<<config>>) /\ UNCHANGED lifetime
  \/ \E buffers \in BufferLists, asserts, pack_ok \in BOOLEAN :
       \E exec_ok \in (IF pack_ok THEN BOOLEAN ELSE {TRUE}) :
         Execute(buffers, asserts, pack_ok, exec_ok) /\ UNCHANGED lifetime

SpecExec == InitDag /\ [][NextExec]_vars

(***************************************************************************)
(* The specification of convolution shapes: two argument tensors of any    *)
(* of the shapes and layouts, and the convolutions of one with another.    *)
(***************************************************************************)
InitConv ==
  /\ \E d1, d2 \in ConvShapes :
       \E s1 \in Layouts(d1), s2 \in Layouts(d2) :
         tensors = <<CuDNNArgTensor(d1, s1, 1), CuDNNArgTensor(d2, s2, 2)>>
  /\ graph = NoGraph
  /\ executable = NoExecutable
  /\ last = [op |-> "none", status |-> "OK"]
  /\ refs = Untracked
  /\ handles = Untracked

NextConv ==
  /\ \A t \in 1..Len(tensors) : IsArg(t)
  /\ \E input, filter \in 1..Len(tensors), uid \in {Len(tensors) + 1},
        fail \in 0..3 :
       CreateConvolution(input, filter, uid, fail) /\ UNCHANGED lifetime

SpecConv == InitConv /\ [][NextConv]_vars

(***************************************************************************)
(* The specification of graph shapes: any sequence of successful Create*   *)
(* calls, each giving its tensor a fresh id, and one graph over any        *)
(* returns among the tensors created so far.                               *)
(***************************************************************************)
NextDag ==
  \/ CreateTensor(GraphShape, GetRowMajorStrides(GraphShape),
                  Len(tensors) + 1, 0) /\ UNCHANGED lifetime
  \/ \E input \in 1..Len(tensors) :
       CreatePointwiseRelu(input, Len(tensors) + 1, 0) /\ UNCHANGED lifetime
  \/ \E x \in 1..Len(tensors) :
       CreatePointwiseUnary(x, Len(tensors) + 1, 0) /\ UNCHANGED lifetime
  \/ \E x, b \in 1..Len(tensors) :
       CreatePointwiseBinary(x, b, Len(tensors) + 1, 0) /\ UNCHANGED lifetime
  \/ \E input, filter \in 1..Len(tensors) :
       CreateConvolution(input, filter, Len(tensors) + 1, 0)
       /\ UNCHANGED lifetime
  \/ /\ graph = NoGraph
     /\ \E rets \in SeqsUpTo(1..Len(tensors), MaxRets) :
          CreateOperationGraph(rets, 0) /\ UNCHANGED lifetime

SpecDag == Init /\ [][NextDag]_vars

(***************************************************************************)
(* The specification of tensor creation: any sequence of Create* calls,    *)
(* each with a fresh id, the backend rejecting any of the descriptors.     *)
(***************************************************************************)
NextCreate ==
  \/ \E fail \in 0..1 :
       CreateTensor(GraphShape, GetRowMajorStrides(GraphShape),
                    Len(tensors) + 1, fail) /\ UNCHANGED lifetime
  \/ \E input \in 1..Len(tensors), fail \in 0..3 :
       CreatePointwiseRelu(input, Len(tensors) + 1, fail)
       /\ UNCHANGED lifetime
  \/ \E x \in 1..Len(tensors), fail \in 0..3 :
       CreatePointwiseUnary(x, Len(tensors) + 1, fail) /\ UNCHANGED lifetime
  \/ \E x, b \in 1..Len(tensors), fail \in 0..3 :
       CreatePointwiseBinary(x, b, Len(tensors) + 1, fail)
       /\ UNCHANGED lifetime
  \/ \E input, filter \in 1..Len(tensors), fail \in 0..3 :
       CreateConvolution(input, filter, Len(tensors) + 1, fail)
       /\ UNCHANGED lifetime

SpecCreate == Init /\ [][NextCreate]_vars

(***************************************************************************)
(* Reference counting.  Every object is created with one reference, the    *)
(* handle returned to the caller; vm::retain_ref adds one; releasing the   *)
(* last one destroys the object, which releases the references it holds.   *)
(***************************************************************************)
\* A result tensor holding plain pointers to its inputs.
RetainedByTensor_Nothing(tensor) == <<>>

\* The references a tensor node holds: a result tensor retains each input.
RetainedByTensor(tensor) == tensor.inputs

\* The references a graph holds: each of its args, then each of its rets.
RetainedByGraph(g) == g.args \o g.rets

\* vm::retain_ref of each tensor of a list.
RECURSIVE RetainTensors(_, _)
RetainTensors(counts, list) ==
  IF list = <<>> THEN counts
  ELSE RetainTensors([counts EXCEPT ![Head(list)] = @ + 1], Tail(list))

\* Release of one reference to each tensor of a list; a tensor whose count
\* reaches zero is destroyed and releases the references it holds.
RECURSIVE ReleaseTensors(_, _)
ReleaseTensors(counts, list) ==
  IF list = <<>> THEN counts
  ELSE LET t == Head(list)
           count == counts[t] - 1
       IN ReleaseTensors([counts EXCEPT ![t] = count],
                         IF count = 0
                         THEN RetainedByTensor(tensors[t]) \o Tail(list)
                         ELSE Tail(list))

\* Release of one reference to the graph.
ReleaseGraphRef(r) ==
  IF r.graph = 1
  THEN [r EXCEPT !.graph = 0,
                 !.tensors = ReleaseTensors(@, RetainedByGraph(graph))]
  ELSE [r EXCEPT !.graph = @ - 1]

\* Release of one reference to the executable, which holds one to its graph.
ReleaseExecutableRef(r) ==
  IF r.executable = 1
  THEN ReleaseGraphRef([r EXCEPT !.executable = 0])
  ELSE [r EXCEPT !.executable = @ - 1]

\* What a Create* call does to the counts: on success the new tensor has one
\* reference, handed to the caller, and has retained its inputs.
TensorCreated ==
  IF last'.status = "OK"
  THEN /\ refs' = [refs EXCEPT !.tensors =
                     RetainTensors(Append(@, 1),
                                   RetainedByTensor(tensors'[Len(tensors')]))]
       /\ handles' = [handles EXCEPT !.tensors = @ \cup {Len(tensors')}]
  ELSE UNCHANGED lifetime

\* What CreateOperationGraph does to the counts.
GraphCreated ==
  IF last'.status = "OK"
  THEN /\ refs' = [refs EXCEPT !.graph = 1,
                               !.tensors =
                                 RetainTensors(@, RetainedByGraph(graph'))]
       /\ handles' = [handles EXCEPT !.graph = TRUE]
  ELSE UNCHANGED lifetime

\* What CreateExecutable does to the counts.
ExecutableCreated ==
  IF last'.status = "OK"
  THEN /\ refs' = [refs EXCEPT !.executable = 1, !.graph = @ + 1]
       /\ handles' = [handles EXCEPT !.executable = TRUE]
  ELSE UNCHANGED lifetime

\* The caller drops its handle of a tensor, of the graph, of the executable.
ReleaseTensor(tensor) ==
  /\ tensor \in handles.tensors
  /\ refs' = [refs EXCEPT !.tensors = ReleaseTensors(@, <<tensor>>)]
  /\ handles' = [handles EXCEPT !.tensors = @ \ {tensor}]
  /\ last' = [op |-> "ReleaseTensor", status |-> "OK"]
  /\ UNCHANGED <<tensors, graph, executable>>

ReleaseGraph ==
  /\ handles.graph
  /\ refs' = ReleaseGraphRef(refs)
  /\ handles' = [handles EXCEPT !.graph = FALSE]
  /\ last' = [op |-> "ReleaseGraph", status |-> "OK"]
  /\ UNCHANGED <<tensors, graph, executable>>

ReleaseExecutable ==
  /\ handles.executable
  /\ refs' = ReleaseExecutableRef(refs)
  /\ handles' = [handles EXCEPT !.executable = FALSE]
  /\ last' = [op |-> "ReleaseExecutable", status |-> "OK"]
  /\ UNCHANGED <<tensors, graph, executable>>

(***************************************************************************)
(* The specification of lifetimes: argument tensors, operations of one and *)
(* of two inputs over tensors the caller holds, one graph of one or two     *)
(* returns, one executable, and the caller dropping its handles, in any    *)
(* order.  A destroyed object keeps its place in `tensors`, `graph` *)
(* or `executable`; its count is zero.                                     *)
(***************************************************************************)
InitLifetime ==
  /\ tensors = <<>>
  /\ graph = NoGraph
  /\ executable = NoExecutable
  /\ last = [op |-> "none", status |-> "OK"]
  /\ refs = [tensors |-> <<>>, graph |-> 0, executable |-> 0]
  /\ handles = [tensors |-> {}, graph |-> FALSE, executable |-> FALSE]

NextLifetime ==
  \/ CreateTensor(GraphShape, GetRowMajorStrides(GraphShape),
                  Len(tensors) + 1, 0) /\ TensorCreated
  \/ \E input \in handles.tensors :
       CreatePointwiseRelu(input, Len(tensors) + 1, 0) /\ TensorCreated
  \/ \E x, b \in handles.tensors :
       CreatePointwiseBinary(x, b, Len(tensors) + 1, 0) /\ TensorCreated
  \/ /\ graph = NoGraph
     /\ \E r1, r2 \in handles.tensors :
          \E rets \in {<<r1>>, <<r1, r2>>} :
            CreateOperationGraph(rets, 0) /\ GraphCreated
  \/ /\ handles.graph
     /\ executable = NoExecutable
     /\ \E config \in {c \in ConfigOutcomes : c.workspace = 0} :
          CreateExecutable(<<config>>) /\ ExecutableCreated
  \/ \E tensor \in handles.tensors : ReleaseTensor(tensor)
  \/ ReleaseGraph
  \/ ReleaseExecutable

SpecLifetime == InitLifetime /\ [][NextLifetime]_vars

(***************************************************************************)
(* Vocabulary of the properties.                                           *)
(***************************************************************************)
Id(tensor) == tensors[tensor].id

\* The tensors reachable from the set S over input edges, S included.
RECURSIVE ReachableFrom(_)
ReachableFrom(S) ==
  LET more == S \cup UNION {Range(tensors[t].inputs) : t \in S}
  IN IF more = S THEN S ELSE ReachableFrom(more)

ReachableArgs(rets) == {t \in ReachableFrom(Range(rets)) : IsArg(t)}

ReachableOps(rets) == {t \in ReachableFrom(Range(rets)) : IsOpResult(t)}

Occurrences(s, x) == Cardinality({i \in 1..Len(s) : s[i] = x})

\* The tensor the last successful Create* call appended.
Created == tensors[Len(tensors)]

ConvolutionCreated ==
  /\ last.op = "CreateConvolution"
  /\ last.status = "OK"

(***************************************************************************)
(* C1.  The argument list of every graph CreateOperationGraph builds has   *)
(* a strictly ascending id sequence and holds exactly the argument         *)
(* tensors reachable from the returns over input edges, none twice.        *)
(***************************************************************************)
C1_ArgsStrictlyAscendingAndExact ==
  graph # NoGraph =>
    /\ \A i \in 1..(Len(graph.args) - 1) :
         Id(graph.args[i]) < Id(graph.args[i + 1])
    /\ Range(graph.args) = ReachableArgs(graph.rets)
    /\ \A t \in Range(graph.args) : Occurrences(graph.args, t) = 1

\* What does hold of the argument list: it is exact, without repeats, and its
\* ids never descend; they ascend strictly when the reachable arguments have
\* pairwise distinct ids.
ArgsExactAndNonDescending ==
  graph # NoGraph =>
    /\ \A i \in 1..(Len(graph.args) - 1) :
         Id(graph.args[i]) <= Id(graph.args[i + 1])
    /\ Range(graph.args) = ReachableArgs(graph.rets)
    /\ \A t \in Range(graph.args) : Occurrences(graph.args, t) = 1
    /\ (\A a, b \in Range(graph.args) : a # b => Id(a) # Id(b)) =>
         \A i \in 1..(Len(graph.args) - 1) :
           Id(graph.args[i]) < Id(graph.args[i + 1])

(***************************************************************************)
(* C2.  A convolution of an input [N,C,H,W] with a filter [O,C,kh,kw]      *)
(* creates a result tensor with dims [N, O, H-kh+1, W-kw+1].               *)
(***************************************************************************)
C2_ConvOutputDimsLaw ==
  ConvolutionCreated =>
    LET i == tensors[last.input].dims
        f == tensors[last.filter].dims
    IN Created.dims = <<i[1], f[1], i[3] - f[3] + 1, i[4] - f[4] + 1>>

\* The example: input [1,3,8,8] with filter [4,3,3,3] gives [1,4,6,6].
ConvExampleLaw ==
  (/\ ConvolutionCreated
   /\ tensors[last.input].dims = <<1, 3, 8, 8>>
   /\ tensors[last.filter].dims = <<4, 3, 3, 3>>) =>
    Created.dims = <<1, 4, 6, 6>>

(***************************************************************************)
(* C3.  Execute with a buffer list whose length is not the number of graph *)
(* arguments plus the number of graph returns ends with invalid-argument   *)
(* and passes none of the assertions, nor the backend dispatch.            *)
(***************************************************************************)
BufferCountMismatch ==
  /\ last.op = "Execute"
  /\ Len(last.buffers) #
       Len(executable.graph.args) + Len(executable.graph.rets)

C3_BufferCountMismatchRejected ==
  BufferCountMismatch =>
    /\ last.status = "INVALID_ARGUMENT"
    /\ last.reached = <<>>

\* A mismatched call that would have tripped an assertion had it gone on: a
\* host buffer in the list, and a plan that asks for workspace.
C3_Witness ==
  /\ BufferCountMismatch
  /\ last.status = "INVALID_ARGUMENT"
  /\ \E i \in 1..Len(last.buffers) : last.buffers[i].type = "HOST"
  /\ executable.plans[1].workspace # 0

(***************************************************************************)
(* C4.  CreateExecutable ends with an internal error and creates no        *)
(* executable exactly when the heuristic returned no engine config or no   *)
(* returned config builds into a plan; otherwise it returns an executable  *)
(* of the graph.                                                           *)
(***************************************************************************)
NoConfigBuilds(configs) == \A c \in 1..Len(configs) : ~configs[c].builds

C4_CreateExecutableFailsExactlyWhenNoPlan ==
  [][last'.op = "CreateExecutable" =>
       IF NoConfigBuilds(last'.configs)
       THEN /\ last'.status = "INTERNAL"
            /\ executable' = executable
       ELSE /\ last'.status = "OK"
            /\ executable' # NoExecutable
            /\ executable'.graph = graph
            /\ executable'.plans # <<>>]_vars

\* Two configs were returned and neither built.
C4_Witness ==
  /\ last.op = "CreateExecutable"
  /\ Len(last.configs) = 2
  /\ NoConfigBuilds(last.configs)
  /\ last.status = "INTERNAL"
  /\ executable = NoExecutable

(***************************************************************************)
(* C5.  An executable CreateExecutable returns holds exactly one plan: the *)
(* plan of the first config, in ranked order, that builds; every config    *)
(* ranked before it was tried and failed, none after it was tried.         *)
(***************************************************************************)
C5_FirstBuildingConfigWins ==
  (last.op = "CreateExecutable" /\ last.status = "OK") =>
    /\ Len(executable.plans) = 1
    /\ LET k == executable.plans[1].config
       IN /\ k \in 1..Len(last.configs)
          /\ last.configs[k].builds
          /\ executable.plans[1].workspace = last.configs[k].workspace
          /\ \A c \in 1..(k - 1) : ~last.configs[c].builds
          /\ last.attempted = [c \in 1..k |-> c]

\* The first config failed, the second built, and so it was chosen.
C5_Witness ==
  /\ last.op = "CreateExecutable"
  /\ last.status = "OK"
  /\ Len(last.configs) = 2
  /\ ~last.configs[1].builds
  /\ executable.plans[1].config = 2

\* Both configs build: the first is chosen and the second is never tried.
FirstOfTwoBuildingConfigs ==
  /\ last.op = "CreateExecutable"
  /\ Len(last.configs) = 2
  /\ last.configs[1].builds /\ last.configs[2].builds
  /\ last.attempted = <<1>>

(***************************************************************************)
(* C6.  CreateConvolution ends with invalid-argument, builds no descriptor *)
(* and creates no tensor node whenever the input rank is not 4 or the      *)
(* filter rank differs from the input rank.                                *)
(***************************************************************************)
C6_RankMismatchRejected ==
  [][(/\ last'.op = "CreateConvolution"
      /\ \/ Len(tensors[last'.input].dims) # 4
         \/ Len(tensors[last'.filter].dims) #
              Len(tensors[last'.input].dims)) =>
       /\ last'.status = "INVALID_ARGUMENT"
       /\ last'.built = {}
       /\ tensors' = tensors]_vars

\* A rank-5 input (a 3-D convolution) with a rank-5 filter was rejected.
C6_Witness ==
  /\ last.op = "CreateConvolution"
  /\ Len(tensors[last.input].dims) = 5
  /\ Len(tensors[last.filter].dims) = 5
  /\ last.status = "INVALID_ARGUMENT"
  /\ Len(tensors) = 2

\* A rank-4 input with a filter of another rank was rejected.
FilterRankRejected ==
  /\ last.op = "CreateConvolution"
  /\ Len(tensors[last.input].dims) = 4
  /\ Len(tensors[last.filter].dims) # 4
  /\ last.status = "INVALID_ARGUMENT"

(***************************************************************************)
(* C7.  When the convolution input is not channel-last (its second stride  *)
(* is not 1) the result tensor has the row-major strides of its dims:      *)
(* stride[3] = 1 and stride[i] = stride[i+1] * d[i+1] (0-based).           *)
(***************************************************************************)
C7_RowMajorOutputStrides ==
  (ConvolutionCreated /\ tensors[last.input].strides[2] # 1) =>
    /\ Created.strides[4] = 1
    /\ \A i \in 1..3 :
         Created.strides[i] = Created.strides[i + 1] * Created.dims[i + 1]

\* What the strides are instead: each is the product of its own dim and the
\* next stride.
RowMajorOutputStridesAsBuilt ==
  (ConvolutionCreated /\ tensors[last.input].strides[2] # 1) =>
    /\ Created.strides[4] = 1
    /\ \A i \in 1..3 :
         Created.strides[i] = Created.dims[i] * Created.strides[i + 1]

(***************************************************************************)
(* C8.  When the convolution input is channel-last (its second stride is   *)
(* 1) the result tensor, of dims [n,c,h,w], has the channel-last strides   *)
(* [h*w*c, 1, w*c, c].                                                     *)
(***************************************************************************)
C8_ChannelsLastOutputStrides ==
  (ConvolutionCreated /\ tensors[last.input].strides[2] = 1) =>
    LET c == Created.dims[2]
        h == Created.dims[3]
        w == Created.dims[4]
    IN Created.strides = <<h * w * c, 1, w * c, c>>

\* The example's input [1,3,8,8], channel-last, with the filter [4,3,3,3]:
\* the result, of dims [1,3,6,6], has strides [108,1,18,3].
C8_Witness ==
  /\ ConvolutionCreated
  /\ tensors[last.input].dims = <<1, 3, 8, 8>>
  /\ tensors[last.input].strides[2] = 1
  /\ tensors[last.filter].dims = <<4, 3, 3, 3>>
  /\ Created.strides = <<108, 1, 18, 3>>

(***************************************************************************)
(* C9.  The uids of a graph are the ids of its arguments, ascending, then  *)
(* the ids of its returns in the order given, |args| + |returns| in all;   *)
(* Execute binds the device pointer of buffers[i] to the id at position i. *)
(***************************************************************************)
C9_UidsAndBinding ==
  /\ graph # NoGraph =>
       /\ (last.op = "CreateOperationGraph" /\ last.status = "OK") =>
            graph.rets = last.rets
       /\ Len(graph.uids) = Len(graph.args) + Len(graph.rets)
       /\ \A i \in 1..Len(graph.args) : graph.uids[i] = Id(graph.args[i])
       /\ \A i \in 1..Len(graph.rets) :
            graph.uids[Len(graph.args) + i] = Id(graph.rets[i])
       /\ \A i \in 1..(Len(graph.args) - 1) :
            graph.uids[i] <= graph.uids[i + 1]
  /\ (last.op = "Execute" /\ last.status = "OK") =>
       /\ last.pack.uids = executable.graph.uids
       /\ Len(last.pack.ptrs) = Len(last.pack.uids)
       /\ Len(last.pack.ptrs) = Len(last.buffers)
       /\ \A i \in 1..Len(last.buffers) :
            last.pack.ptrs[i] = last.buffers[i].ptr + last.buffers[i].offset

\* An execution of a graph of two arguments, created in descending id order,
\* and one return.
C9_Witness ==
  /\ last.op = "Execute"
  /\ last.status = "OK"
  /\ Len(executable.graph.args) = 2
  /\ executable.graph.args = <<2, 1>>
  /\ executable.graph.rets = <<3>>
  /\ Len(last.pack.ptrs) = 3

(***************************************************************************)
(* C10.  The operations list of a graph holds every operation reachable    *)
(* from the returns exactly once, also when a result tensor is reached     *)
(* over several paths or is listed more than once in the returns.          *)
(***************************************************************************)
C10_EachReachableOperationOnce ==
  graph # NoGraph =>
    /\ Range(graph.ops) = ReachableOps(graph.rets)
    /\ \A t \in ReachableOps(graph.rets) : Occurrences(graph.ops, t) = 1

\* What does hold: the list holds the reachable operations and no others,
\* each at least once.
OpsAreTheReachableOperations ==
  graph # NoGraph => Range(graph.ops) = ReachableOps(graph.rets)

\* Diamond-shaped sharing: the result b of an operation feeds both operands
\* of the returned operation, and the operation of b is listed twice.
DiamondListsOperationTwice ==
  (/\ graph # NoGraph
   /\ Len(tensors) = 3
   /\ IsArg(1)
   /\ tensors[2].inputs = <<1>>
   /\ tensors[3].inputs = <<2, 2>>
   /\ graph.rets = <<3>>) =>
    graph.ops = <<2, 2, 3>>

(***************************************************************************)
(* C11.  The operations list of a graph is in execution order: for every   *)
(* position of the list and every input of the operation's result tensor   *)
(* that is itself an operation result, the operation producing that input  *)
(* occurs at an earlier position.                                          *)
(***************************************************************************)
C11_OpsInTopologicalOrder ==
  graph # NoGraph =>
    \A p \in 1..Len(graph.ops) :
      \A k \in 1..Len(tensors[graph.ops[p]].inputs) :
        LET input == tensors[graph.ops[p]].inputs[k]
        IN IsOpResult(input) => \E q \in 1..(p - 1) : graph.ops[q] = input

\* An operation and its consumer, both returned, the consumer first: the
\* producer is listed before the consumer, and once more after it.
C11_Witness ==
  /\ graph # NoGraph
  /\ Len(tensors) = 3
  /\ IsArg(1)
  /\ tensors[2].inputs = <<1>>
  /\ tensors[3].inputs = <<2, 1>>
  /\ graph.rets = <<3, 2>>
  /\ graph.ops = <<2, 3, 2>>

(***************************************************************************)
(* C12.  No object is destroyed while something alive still needs it:      *)
(* while the executable is alive its graph is alive, and while the graph   *)
(* is alive every argument tensor, every return tensor and every tensor    *)
(* reachable from the returns over input edges has a positive count.       *)
(***************************************************************************)
C12_NeededObjectsAlive ==
  /\ refs.executable > 0 => refs.graph > 0
  /\ refs.graph > 0 =>
       \A t \in Range(graph.args) \cup ReachableFrom(Range(graph.rets)) :
         refs.tensors[t] > 0

\* The caller has dropped every handle but the executable's: the executable
\* keeps the graph, the graph its return, the return its producer chain.
C12_Witness ==
  /\ refs.executable > 0
  /\ handles = [tensors |-> {}, graph |-> FALSE, executable |-> TRUE]
  /\ Len(tensors) = 3
  /\ tensors[3].inputs = <<2>>
  /\ tensors[2].inputs = <<1>>
  /\ graph.rets = <<3>>
  /\ refs.tensors = <<2, 1, 1>>

\* The largest number of inputs of a node.
MaxFanIn ==
  LET counts == {Len(tensors[t].inputs) : t \in 1..Len(tensors)} \cup {0}
  IN CHOOSE c \in counts : \A d \in counts : d <= c

\* Iterations that suffice when every input was created before its consumer:
\* the tensor created k-th is popped at most (MaxFanIn + 1)^(k-1) times for
\* each return.
StepBound(rets) == Len(rets) * ((MaxFanIn + 1) ^ Len(tensors))

InputsCreatedEarlier ==
  \A t \in 1..Len(tensors) :
    \A k \in 1..Len(tensors[t].inputs) : tensors[t].inputs[k] < t

(***************************************************************************)
(* C13.  After any sequence of Create* calls the inputs of every tensor    *)
(* node are nodes created before it, so the input edges form no cycle, and *)
(* the worklist loop of CreateOperationGraph started from any returns      *)
(* ends with an empty worklist after a bounded number of iterations,       *)
(* with the args and ops CreateOperationGraph uses.                        *)
(***************************************************************************)
C13_AcyclicAndTraversalTerminates ==
  /\ InputsCreatedEarlier
  /\ \A rets \in SeqsUpTo(1..Len(tensors), MaxRets) :
       LET end == TraverseWithin([worklist |-> rets, args |-> {},
                                  ops |-> <<>>], StepBound(rets))
       IN /\ end.worklist = <<>>
          /\ [args |-> end.args, ops |-> end.ops] = Traverse(rets, {}, <<>>)

\* A result reached over two paths and returned twice: the loop needs ten
\* iterations, and ends.
C13_Witness ==
  /\ Len(tensors) = 3
  /\ IsArg(1)
  /\ tensors[2].inputs = <<1>>
  /\ tensors[3].inputs = <<2, 2>>
  /\ TraverseWithin([worklist |-> <<3, 3>>, args |-> {}, ops |-> <<>>],
                    9).worklist # <<>>
  /\ TraverseWithin([worklist |-> <<3, 3>>, args |-> {}, ops |-> <<>>],
                    10).worklist = <<>>

====
